---------------------------- MODULE Spec2Model ----------------------------
(***************************************************************************)
(* Model of nss-localuser (src/localuser.c): the NSS host resolver that    *)
(* maps the names localuser[-UID][-APPID] to addresses of 127.128.0.0/9    *)
(* and back.                                                               *)
(*                                                                         *)
(* Representation choices                                                  *)
(*  - a uint32_t is a pair <<hi, lo>> of 16-bit limbs, so that every       *)
(*    operation keeps its 32-bit width (wrap-around included);             *)
(*  - a C string is the sequence of its character codes (ASCII) without    *)
(*    the final NUL; reading the index just after the end gives 0;         *)
(*  - a value in network byte order (lud.ipv4, the words of an IPv6        *)
(*    address) is the sequence of its bytes in memory, first byte first:   *)
(*    htonl takes a host value to that sequence, ntohl back;               *)
(*  - the caller's buffer is a map from the offsets written to cells.      *)
(***************************************************************************)
EXTENDS Integers, Sequences, FiniteSets, TLC

(***************************************************************************)
(* uint32_t arithmetic on 16-bit limbs                                     *)
(***************************************************************************)
Limb == 2 ^ 16

U32(hi, lo) == <<hi, lo>>

\* a small natural number as a uint32_t
U(n) == <<n \div Limb, n % Limb>>

\* the value of a uint32_t known to be below 2^31
Val(x) == x[1] * Limb + x[2]

RECURSIVE BitAnd(_, _)
BitAnd(a, b) ==
    IF a = 0 \/ b = 0 THEN 0
    ELSE (a % 2) * (b % 2) + 2 * BitAnd(a \div 2, b \div 2)

BitOr(a, b) == a + b - BitAnd(a, b)

And32(x, y) == <<BitAnd(x[1], y[1]), BitAnd(x[2], y[2])>>

Or32(x, y) == <<BitOr(x[1], y[1]), BitOr(x[2], y[2])>>

\* x << k on 32 bits, 0 <= k < 16
Shl32(x, k) ==
    LET l == x[2] * (2 ^ k)
    IN  <<(x[1] * (2 ^ k) + l \div Limb) % Limb, l % Limb>>

\* x >> k on 32 bits, 0 <= k < 16
Shr32(x, k) ==
    <<x[1] \div (2 ^ k),
      (x[2] \div (2 ^ k)) + (x[1] % (2 ^ k)) * (2 ^ (16 - k))>>

\* x + y on 32 bits
Add32(x, y) ==
    LET l == x[2] + y[2]
    IN  <<(x[1] + y[1] + l \div Limb) % Limb, l % Limb>>

Lt32(x, y) == x[1] < y[1] \/ (x[1] = y[1] /\ x[2] < y[2])

Gt32(x, y) == Lt32(y, x)

\* x / 10 and x % 10 on 32 bits
Div10(x) ==
    LET t == (x[1] % 10) * Limb + x[2]
    IN  <<x[1] \div 10, t \div 10>>

Mod10(x) == ((x[1] % 10) * Limb + x[2]) % 10

(***************************************************************************)
(* Byte order                                                              *)
(***************************************************************************)
\* htonl: the bytes in memory of the network-order value of x
htonl(x) == <<x[1] \div 256, x[1] % 256, x[2] \div 256, x[2] % 256>>

\* ntohl: the host value of the four bytes of a network-order word
ntohl(b) == <<b[1] * 256 + b[2], b[3] * 256 + b[4]>>


(***************************************************************************)
(* Constants of localuser.c                                                *)
(***************************************************************************)
\* "localuser"
localuser == <<108, 111, 99, 97, 108, 117, 115, 101, 114>>

\* '-'
separator == 45

MAXNAMELEN == 40

lenip4 == 4

lenip6 == 16

prefix_mask  == U32(65408, 0)                   \* 0xff800000
prefix_value == U32(32640, 0)                   \* 0x7f800000

locusr_both_ids_mask        == U32(32704, 0)    \* 0x7fc00000
locusr_both_ids_prefix      == U32(32704, 0)    \* 0x7fc00000
locusr_both_ids_uid_max     == U32(0, 2047)     \* 0x000007ff
\* a mask of 12 bits, one bit of the APPID read with the UID
locusr_both_ids_uid_mask_wide == U32(0, 4095)
locusr_both_ids_uid_mask    == U32(0, 2047)     \* 0x000007ff
locusr_both_ids_appid_max   == U32(0, 2047)     \* 0x000007ff
locusr_both_ids_appid_mask  == U32(0, 2047)     \* 0x000007ff
locusr_both_ids_appid_shift == 11

locusr_appid_only_mask       == U32(32752, 0)   \* 0x7ff00000
\* the prefix of the appid-only layout taken from the uid-only one
locusr_appid_only_prefix_as_uid == U32(32672, 0)
locusr_appid_only_prefix     == U32(32688, 0)   \* 0x7fb00000
locusr_appid_only_appid_max  == U32(15, 65535)  \* 0x000fffff
locusr_appid_only_appid_mask == U32(15, 65535)  \* 0x000fffff

locusr_uid_only_mask     == U32(32752, 0)       \* 0x7ff00000
\* the prefix of the former flat layout, 0x7f800000
locusr_uid_only_prefix_flat == U32(32640, 0)
locusr_uid_only_prefix   == U32(32672, 0)       \* 0x7fa00000
locusr_uid_only_uid_max  == U32(15, 65535)      \* 0x000fffff
locusr_uid_only_uid_mask == U32(15, 65535)      \* 0x000fffff

\* values of <netdb.h>, <errno.h>, <nss.h> and <sys/socket.h> on Linux
AF_UNSPEC == 0
AF_INET == 2
AF_INET6 == 10
EINVAL == 22
ERANGE == 34
HOST_NOT_FOUND == 1
NO_RECOVERY == 3
NSS_STATUS_TRYAGAIN == -2
NSS_STATUS_UNAVAIL == -1
NSS_STATUS_NOTFOUND == 0
NSS_STATUS_SUCCESS == 1

(***************************************************************************)
(* State                                                                   *)
(***************************************************************************)
VARIABLES
    uid_cur,    \* what getuid() returns in this process, a uint32_t
    ptrsize,    \* sizeof(char *) of the build
    call,       \* the entry point called last and its arguments
    status,     \* the enum nss_status it returned
    errnop,     \* *errnop after the call (0: left as the caller set it)
    h_errnop,   \* *h_errnop after the call (0: left as the caller set it)
    result,     \* *result after the call
    buffer,     \* the cells of the caller's buffer written by the call
    lud,        \* the local struct lud of the call, once decoded with success
    ret,        \* what decode_name / decode_ipv4 returned in the call
    fwd,        \* the forward answer a reverse call took its address from
    pair        \* two names and what decode_name made of each (SpecCodec)

vars == <<uid_cur, ptrsize, call, status, errnop, h_errnop, result, buffer,
          lud, ret, fwd, pair>>

(***************************************************************************)
(* Strings and numbers                                                     *)
(***************************************************************************)
\* str[i] of a C string, i counted from 0; the terminating NUL is at Len
At(str, i) == IF i < Len(str) THEN str[i + 1] ELSE 0

\* strncmp(s1, s2, n), started at index k
RECURSIVE strncmp_from(_, _, _, _)
strncmp_from(s1, s2, k, n) ==
    IF k >= n THEN 0
    ELSE IF At(s1, k) # At(s2, k) THEN At(s1, k) - At(s2, k)
    ELSE IF At(s1, k) = 0 THEN 0
    ELSE strncmp_from(s1, s2, k + 1, n)

strncmp(s1, s2, n) == strncmp_from(s1, s2, 0, n)

\* read_u32 without its overflow test
read_u32_overflow_never(a, b) == FALSE

\* the overflow test of read_u32: b < a
read_u32_overflow(a, b) == Lt32(b, a)

\* the loop of read_u32 from character p with accumulator a; old is *val
\* before the call, kept when the function returns -1 without writing it
RECURSIVE read_u32_loop(_, _, _, _, _)
read_u32_loop(str, off, p, a, old) ==
    LET c == At(str, off + p)
    IN  IF 48 <= c /\ c <= 57
        THEN LET b == Add32(Add32(Shl32(a, 3), Shl32(a, 1)), U(c - 48))
             IN  IF read_u32_overflow(a, b)
                 THEN [r |-> -1, val |-> old]
                 ELSE read_u32_loop(str, off, p + 1, b, old)
        ELSE [r |-> p, val |-> a]

\* read_u32(&str[off], &val) with *val = old before the call
read_u32(str, off, old) == read_u32_loop(str, off, 0, U(0), old)

\* first loop of write_u32: the digits, least significant first
RECURSIVE write_u32_digits(_)
write_u32_digits(val) ==
    IF Gt32(val, U(9))
    THEN <<48 + Mod10(val)>> \o write_u32_digits(Div10(val))
    ELSE <<48 + val[2]>>

\* second loop of write_u32: swap str[u] and str[l] while --u > l
RECURSIVE write_u32_swap(_, _, _)
write_u32_swap(str, u, l) ==
    IF u - 1 > l
    THEN write_u32_swap([str EXCEPT ![u] = str[l + 1], ![l + 1] = str[u]],
                        u - 1, l + 1)
    ELSE str

\* write_u32 without its second loop
write_u32_noswap(val) == write_u32_digits(val)

\* the characters written by write_u32; their count is what it returns
write_u32(val) ==
    LET d == write_u32_digits(val)
    IN  write_u32_swap(d, Len(d), 0)

(***************************************************************************)
(* The codec                                                               *)
(***************************************************************************)
\* the current user id cut to the 11 bits of the UID and APPID layout
getuid_truncated == And32(uid_cur, locusr_both_ids_uid_mask)

\* getuid() as the code uses it: (uint32_t)getuid()
getuid == uid_cur

\* encode_name_uid without the separator that stands for the current user
\* in front of an APPID
encode_name_uid_nodash(l) ==
    IF l.has_uid = 0 THEN <<separator, separator>>
    ELSE IF l.uid # getuid THEN <<separator>> \o write_u32(l.uid)
    ELSE <<>>

\* encode_name, lines 189-197: what is written for the UID
encode_name_uid(l) ==
    IF l.has_uid = 0 THEN <<separator, separator>>
    ELSE IF l.uid # getuid THEN <<separator>> \o write_u32(l.uid)
    ELSE IF l.has_appid = 1 THEN <<separator>>
    ELSE <<>>

\* encode_name: writes lud.name and lud.len from the identity of lud
encode_name(l) ==
    LET uidpart == encode_name_uid(l)
        appidpart ==
            IF l.has_appid = 1 THEN <<separator>> \o write_u32(l.appid)
            ELSE <<>>
        n == localuser \o uidpart \o appidpart
    IN  [l EXCEPT !.len = Len(n), !.name = n]

\* the range test off by one: v >= max
exceeds_or_equal(v, max) == ~Lt32(v, max)

\* the range tests of decode_name and decode_ipv4: v > max
exceeds(v, max) == Gt32(v, max)

\* decode_name, lines 281-305: range checks, address, canonical name
decode_name_encode(l) ==
    IF l.has_appid = 1 /\ l.has_uid = 1
    THEN IF exceeds(l.appid, locusr_both_ids_appid_max)
         THEN [ret |-> -2, lud |-> l]
         ELSE IF exceeds(l.uid, locusr_both_ids_uid_max)
         THEN [ret |-> -2, lud |-> l]
         ELSE LET adr == Or32(Or32(locusr_both_ids_prefix,
                                   Shl32(l.appid, locusr_both_ids_appid_shift)),
                              l.uid)
              IN  [ret |-> 1, lud |-> encode_name([l EXCEPT !.ipv4 = htonl(adr)])]
    ELSE IF l.has_appid = 1
    THEN IF exceeds(l.appid, locusr_appid_only_appid_max)
         THEN [ret |-> -2, lud |-> l]
         ELSE LET adr == Or32(locusr_appid_only_prefix, l.appid)
              IN  [ret |-> 1, lud |-> encode_name([l EXCEPT !.ipv4 = htonl(adr)])]
    ELSE IF exceeds(l.uid, locusr_uid_only_uid_max)
         THEN [ret |-> -2, lud |-> l]
         ELSE LET adr == Or32(locusr_uid_only_prefix, l.uid)
              IN  [ret |-> 1, lud |-> encode_name([l EXCEPT !.ipv4 = htonl(adr)])]

\* decode_name, lines 267-278: the APPID if any, then the end of the name
decode_name_appid(name, i, l) ==
    IF l.has_appid = 1
    THEN LET rd == read_u32(name, i, l.appid)
             l2 == [l EXCEPT !.appid = rd.val]
         IN  IF rd.r <= 0 THEN [ret |-> -1, lud |-> l2]
             ELSE IF At(name, i + rd.r) # 0 THEN [ret |-> -1, lud |-> l2]
             ELSE decode_name_encode(l2)
    ELSE IF At(name, i) # 0 THEN [ret |-> -1, lud |-> l]
    ELSE decode_name_encode(l)

\* decode_name, lines 235-266: what follows "localuser" when not the end
decode_name_ids(name, i, l) ==
    IF At(name, i) # separator THEN [ret |-> -1, lud |-> l]
    ELSE IF At(name, i + 1) = separator
    THEN IF At(name, i + 2) = separator
         THEN decode_name_appid(name, i + 3,
                                [l EXCEPT !.has_uid = 0, !.has_appid = 1])
         ELSE decode_name_appid(name, i + 2,
                                [l EXCEPT !.uid = getuid, !.has_uid = 1,
                                          !.has_appid = 1])
    ELSE LET rd == read_u32(name, i + 1, l.uid)
             l2 == [l EXCEPT !.uid = rd.val]
         IN  IF rd.r <= 0 THEN [ret |-> -1, lud |-> l2]
             ELSE IF At(name, i + 1 + rd.r) # separator
             THEN decode_name_appid(name, i + 1 + rd.r,
                                    [l2 EXCEPT !.has_uid = 1, !.has_appid = 0])
             ELSE decode_name_appid(name, i + 1 + rd.r + 1,
                                    [l2 EXCEPT !.has_uid = 1, !.has_appid = 1])

\* decode_name(name, &lud), lud holding l on entry: [ret, lud]
decode_name(name, l) ==
    LET i == Len(localuser)
    IN  IF strncmp(name, localuser, i) # 0 THEN [ret |-> 0, lud |-> l]
        ELSE IF At(name, i) = 0
        THEN decode_name_encode([l EXCEPT !.has_uid = 1, !.uid = getuid,
                                          !.has_appid = 0])
        ELSE decode_name_ids(name, i, l)

\* both_ids_appid_of without the shift
both_ids_appid_of_noshift(adr) == And32(adr, locusr_both_ids_appid_mask)

\* decode_ipv4, line 332: the APPID of an address of the uid+appid layout
both_ids_appid_of(adr) ==
    And32(Shr32(adr, locusr_both_ids_appid_shift), locusr_both_ids_appid_mask)

\* decode_ipv4(ipv4, &lud), lud holding l on entry: [ret, lud]
decode_ipv4(ipv4, l) ==
    LET adr == ntohl(ipv4)
        l1 == [l EXCEPT !.ipv4 = ipv4]
    IN  IF And32(adr, prefix_mask) # prefix_value THEN [ret |-> 0, lud |-> l]
        ELSE IF And32(adr, locusr_both_ids_mask) = locusr_both_ids_prefix
        THEN LET l2 == [l1 EXCEPT !.has_uid = 1, !.has_appid = 1,
                                  !.uid = And32(adr, locusr_both_ids_uid_mask)]
                 l3 == [l2 EXCEPT !.appid = both_ids_appid_of(adr)]
             IN  IF exceeds(l2.uid, locusr_both_ids_uid_max)
                 THEN [ret |-> -1, lud |-> l2]
                 ELSE IF exceeds(l3.appid, locusr_both_ids_appid_max)
                 THEN [ret |-> -1, lud |-> l3]
                 ELSE [ret |-> 1, lud |-> encode_name(l3)]
        ELSE IF And32(adr, locusr_appid_only_mask) = locusr_appid_only_prefix
        THEN LET l2 == [l1 EXCEPT !.has_uid = 0, !.has_appid = 1,
                                  !.appid = And32(adr, locusr_appid_only_appid_mask)]
             IN  IF exceeds(l2.appid, locusr_appid_only_appid_max)
                 THEN [ret |-> -1, lud |-> l2]
                 ELSE [ret |-> 1, lud |-> encode_name(l2)]
        ELSE IF And32(adr, locusr_uid_only_mask) = locusr_uid_only_prefix
        THEN LET l2 == [l1 EXCEPT !.has_uid = 1, !.has_appid = 0,
                                  !.uid = And32(adr, locusr_uid_only_uid_mask)]
             IN  IF exceeds(l2.uid, locusr_uid_only_uid_max)
                 THEN [ret |-> -1, lud |-> l2]
                 ELSE [ret |-> 1, lud |-> encode_name(l2)]
        ELSE [ret |-> -1, lud |-> l1]

(***************************************************************************)
(* The caller's buffer and struct hostent                                  *)
(***************************************************************************)
\* cells of the buffer: a byte, or one byte of a pointer (to an offset of
\* the buffer, or NULL)
Byte(b) == [k |-> "byte", v |-> b]
Ptr(off) == [k |-> "ptr", v |-> off]
Null == [k |-> "null", v |-> 0]

\* n copies of cell c
Cells(c, n) == [j \in 1..n |-> c]

\* the buffer after storing the cells cs from offset off
Store(mem, off, cs) ==
    [o \in DOMAIN mem \cup (off..(off + Len(cs) - 1)) |->
        IF o >= off /\ o < off + Len(cs) THEN cs[o - off + 1] ELSE mem[o]]

\* the cells a sequence of bytes is stored as
Bytes(bs) == [j \in 1..Len(bs) |-> Byte(bs[j])]

\* memcpy source: the first n chars of the array holding the C string str
CharArray(str, n) == [j \in 1..n |-> At(str, j - 1)]

\* what the caller hands over: nothing written yet
NoResult == [h_name |-> -1, h_aliases |-> -1, h_addrtype |-> -1,
             h_length |-> -1, h_addr_list |-> -1]

NoBuffer == [o \in {} |-> Null]

NoOut == [errnop |-> 0, h_errnop |-> 0, result |-> NoResult, buffer |-> NoBuffer]

\* the test on the buffer size that forgets the name
fillent_short_noname(buflen, alen, len) == buflen < 2 * ptrsize + len

\* the test on the buffer size off by one
fillent_short_le(buflen, alen, len) == buflen <= 2 * ptrsize + alen + len

\* the test of fillent on the buffer size, lines 381-382
fillent_short(buflen, alen, len) == buflen < 2 * ptrsize + alen + len

\* fillent(lud, af, result, buffer, buflen, errnop, h_errnop)
fillent(l, af, buflen, o) ==
    IF af # AF_INET /\ af # AF_INET6
    THEN [status |-> NSS_STATUS_UNAVAIL,
          out |-> [o EXCEPT !.errnop = EINVAL, !.h_errnop = NO_RECOVERY]]
    ELSE
    LET len == IF af = AF_INET THEN lenip4 ELSE lenip6
        alen == 1 + l.len
    IN  IF fillent_short(buflen, alen, len)
        THEN [status |-> NSS_STATUS_TRYAGAIN,
              out |-> [o EXCEPT !.errnop = ERANGE, !.h_errnop = NO_RECOVERY]]
        ELSE
        LET list == 0                       \* h_addr_list = (char**)buffer
            a0 == list + 2 * ptrsize        \* &h_addr_list[2]
            nm == a0 + len                  \* &h_addr_list[0][len]
            m1 == Store(o.buffer, list, Cells(Ptr(a0), ptrsize))
            m2 == Store(m1, nm, Bytes(CharArray(l.name, alen)))
            m3 == Store(m2, list + ptrsize, Cells(Null, ptrsize))
            m4 == IF af = AF_INET6
                  THEN Store(Store(Store(m3, a0, Bytes(<<0, 0, 0, 0>>)),
                                   a0 + 4, Bytes(<<0, 0, 0, 0>>)),
                             a0 + 8, Bytes(htonl(U(65535))))
                  ELSE m3
            bufip == IF af = AF_INET6 THEN a0 + 12 ELSE a0
            m5 == Store(m4, bufip, Bytes(l.ipv4))
        IN  [status |-> NSS_STATUS_SUCCESS,
             out |-> [o EXCEPT !.result =
                                  [h_name |-> nm, h_aliases |-> list + ptrsize,
                                   h_addrtype |-> af, h_length |-> len,
                                   h_addr_list |-> list],
                               !.buffer = m5]]

(***************************************************************************)
(* The entry points.  Each gives [status, out, lud, ret]: the status       *)
(* returned, what the caller's objects hold, the local lud at return and   *)
(* what the decoder returned (called: whether it was called).              *)
(***************************************************************************)
\* the test of line 421 taking only 0 for a failure
decode_failed_zero(r) == r = 0

\* the test of line 421 on what decode_name returned
decode_failed(r) == r <= 0

_nss_localuser_gethostbyname2_r(name, af, buflen, l0, o) ==
    LET d == decode_name(name, l0)
    IN  IF decode_failed(d.ret)
        THEN [status |-> NSS_STATUS_NOTFOUND,
              out |-> [o EXCEPT !.h_errnop = HOST_NOT_FOUND],
              lud |-> d.lud, ret |-> [called |-> TRUE, val |-> d.ret]]
        ELSE LET f == fillent(d.lud, IF af = AF_UNSPEC THEN AF_INET ELSE af,
                              buflen, o)
             IN  [status |-> f.status, out |-> f.out,
                  lud |-> d.lud, ret |-> [called |-> TRUE, val |-> d.ret]]

_nss_localuser_gethostbyname_r(name, buflen, l0, o) ==
    _nss_localuser_gethostbyname2_r(name, AF_UNSPEC, buflen, l0, o)

\* the k-th 32-bit word of the memory at addr, k counted from 0
Word(addr, k) == SubSeq(addr, 4 * k + 1, 4 * k + 4)

\* the test of the prefix looking at the third word only
mapped_prefix_third(addr) == Word(addr, 2) = htonl(U(65535))

\* the test of the IPv4-mapped prefix, lines 474-475
mapped_prefix(addr) ==
    /\ Word(addr, 0) = <<0, 0, 0, 0>>
    /\ Word(addr, 1) = <<0, 0, 0, 0>>
    /\ Word(addr, 2) = htonl(U(65535))

_nss_localuser_gethostbyaddr_r(addr, len, af, buflen, l0, o) ==
    LET af1 == IF af = AF_UNSPEC
               THEN IF len = lenip4 THEN AF_INET
                    ELSE IF len = lenip6 THEN AF_INET6
                    ELSE af
               ELSE af
        v6 == af1 = AF_INET6 /\ len = lenip6
        check == IF v6 THEN mapped_prefix(addr)
                 ELSE af1 = AF_INET /\ len = lenip4
        \* bufip after the ++ of the prefix test (used only when check)
        bufip == IF v6 THEN 3 ELSE 0
        d == IF check THEN decode_ipv4(Word(addr, bufip), l0)
             ELSE [ret |-> 0, lud |-> l0]
        rt == [called |-> check, val |-> d.ret]
    IN  IF check /\ d.ret = 1
        THEN LET f == fillent(d.lud, af1, buflen, o)
             IN  [status |-> f.status, out |-> f.out, lud |-> d.lud, ret |-> rt]
        ELSE [status |-> NSS_STATUS_NOTFOUND,
              out |-> [o EXCEPT !.errnop = EINVAL, !.h_errnop = NO_RECOVERY],
              lud |-> d.lud, ret |-> rt]

(***************************************************************************)
(* Inputs                                                                  *)
(***************************************************************************)
\* buffer sizes tried: none, and every size of a range that holds the
\* sizes needed by the answers
MinBufLen == 20

MaxBufLen == 54

BufLens == {0} \cup (MinBufLen..MaxBufLen)

\* the decimal text of n
RECURSIVE Dec(_)
Dec(n) == IF n > 9 THEN Dec(n \div 10) \o <<48 + (n % 10)>> ELSE <<48 + n>>

\* user ids of the calling process
CurUids == {U(1001), U(1024), U(70000), U32(45776, 24064)}  \* last: 3000000000

PtrSizes == {4, 8}

\* texts tried in the UID position
UidTexts ==
    {Dec(0), Dec(23), Dec(45), Dec(1001), Dec(1024), Dec(2047), Dec(2048),
     Dec(1048575), Dec(1048576),
     <<48, 48, 55>>,                               \* 007
     <<52, 50, 57, 52, 57, 54, 55, 50, 57, 53>>,   \* 4294967295
     <<52, 50, 57, 52, 57, 54, 55, 50, 57, 54>>,   \* 4294967296
     <<54, 48, 48, 48, 48, 48, 48, 48, 48, 48>>}   \* 6000000000

\* texts tried in the APPID position
AppidTexts ==
    {Dec(0), Dec(45), Dec(54), Dec(78), Dec(1001), Dec(2047), Dec(2048),
     Dec(1048575), Dec(1048576),
     <<48, 49>>,                                   \* 01
     <<54, 48, 48, 48, 48, 48, 48, 48, 48, 48>>}   \* 6000000000

\* the pairs tried as localuser-UID-APPID
BothTexts ==
    {<<Dec(0), Dec(0)>>, <<Dec(23), Dec(54)>>, <<Dec(2047), Dec(2047)>>,
     <<Dec(2048), Dec(0)>>, <<Dec(0), Dec(2048)>>, <<Dec(2047), Dec(2048)>>,
     <<Dec(2048), Dec(2047)>>, <<Dec(1001), Dec(78)>>, <<Dec(1024), Dec(1)>>,
     <<Dec(1048575), Dec(1)>>, <<Dec(1), Dec(1048575)>>,
     <<Dec(70000), Dec(5)>>, <<<<48, 49>>, <<48, 50>>>>}

\* names outside the grammar
OtherNames ==
    {<<>>,
     <<108, 111, 99, 97, 108>>,                              \* local
     <<108, 111, 99, 97, 108, 104, 111, 115, 116>>,          \* localhost
     <<76>> \o Tail(localuser),                              \* Localuser
     <<120>> \o localuser,                                   \* xlocaluser
     localuser \o <<120>>,                                   \* localuserx
     localuser \o <<49>>,                                    \* localuser1
     localuser \o <<45>>,                                    \* localuser-
     localuser \o <<45, 45>>,                                \* localuser--
     localuser \o <<45, 45, 45>>,                            \* localuser---
     localuser \o <<45, 45, 45, 45, 49>>,                    \* localuser----1
     localuser \o <<45, 49, 45>>,                            \* localuser-1-
     localuser \o <<45, 49, 120>>,                           \* localuser-1x
     localuser \o <<45, 49, 45, 45, 50>>,                    \* localuser-1--2
     localuser \o <<45, 49, 45, 50, 45, 51>>,                \* localuser-1-2-3
     localuser \o <<45, 49, 45, 50, 120>>,                   \* localuser-1-2x
     localuser \o <<45, 45, 50, 120>>,                       \* localuser--2x
     localuser \o <<45, 120>>}                               \* localuser-x

Names ==
    {localuser}
    \cup {localuser \o <<45>> \o u : u \in UidTexts}
    \cup {localuser \o <<45, 45>> \o a : a \in AppidTexts}
    \cup {localuser \o <<45, 45, 45>> \o a : a \in AppidTexts}
    \cup {localuser \o <<45>> \o p[1] \o <<45>> \o p[2] : p \in BothTexts}
    \cup OtherNames

\* IPv4 addresses tried in reverse calls, as their bytes
Addrs4 ==
    {<<127, 160, 3, 233>>, <<127, 160, 0, 0>>, <<127, 160, 4, 0>>,
     <<127, 175, 255, 255>>, <<127, 176, 0, 0>>, <<127, 176, 0, 45>>,
     <<127, 191, 255, 255>>, <<127, 192, 0, 0>>, <<127, 194, 115, 233>>,
     <<127, 193, 176, 23>>, <<127, 255, 255, 255>>, <<127, 192, 4, 0>>,
     <<127, 192, 11, 233>>, <<127, 255, 251, 233>>, <<127, 161, 17, 112>>,
     <<127, 128, 0, 0>>, <<127, 128, 4, 0>>, <<127, 128, 3, 233>>,
     <<127, 144, 0, 0>>, <<127, 159, 255, 255>>,
     <<127, 0, 0, 1>>, <<127, 127, 255, 255>>, <<255, 160, 4, 0>>,
     <<128, 0, 0, 0>>, <<0, 4, 160, 127>>, <<0, 0, 0, 0>>,
     <<255, 255, 255, 255>>, <<10, 160, 4, 0>>}

\* the 96 bits tried in front of an IPv4 address in a 16-byte address
Prefixes ==
    {<<0, 0, 0, 0, 0, 0, 0, 0, 0, 0, 255, 255>>,    \* ::ffff:a.b.c.d
     <<0, 0, 0, 0, 0, 0, 0, 0, 0, 0, 0, 0>>,        \* ::a.b.c.d
     <<0, 0, 0, 0, 0, 0, 0, 0, 255, 255, 0, 0>>,    \* 0xffff not in network order
     <<0, 0, 0, 0, 0, 0, 0, 1, 0, 0, 255, 255>>,
     <<32, 1, 0, 0, 0, 0, 0, 0, 0, 0, 255, 255>>,
     <<0, 0, 0, 0, 0, 0, 0, 0, 0, 1, 255, 255>>}

\* the IPv4 addresses tried behind every one of the prefixes
Addrs4Any == {<<127, 160, 4, 0>>, <<127, 193, 176, 23>>, <<127, 128, 4, 0>>,
              <<127, 0, 0, 1>>}

\* the addresses handed to reverse calls; len is the length of the memory
Addrs ==
    Addrs4
    \cup {<<0, 0, 0, 0, 0, 0, 0, 0, 0, 0, 255, 255>> \o a : a \in Addrs4}
    \cup {p \o a : p \in Prefixes, a \in Addrs4Any}
    \cup {<<>>, <<127, 160, 4>>, <<127, 160, 4, 0, 0>>,
          <<0, 0, 255, 255, 127, 160, 4, 0>>}

\* AF_UNIX (1 on Linux) stands for the families the module does not serve
AF_UNIX == AF_UNSPEC + 1

AFs == {AF_UNSPEC, AF_INET, AF_INET6, AF_UNIX}

\* what the struct lud of an entry point holds before it is written: the
\* garbage of the stack.  The code reads no field before writing it.
StackLud ==
    [has_uid |-> 1, has_appid |-> 1, uid |-> U32(57005, 48879),
     appid |-> U(7), ipv4 |-> <<127, 192, 56, 7>>, len |-> 39,
     name |-> <<120, 121>>]

\* the same, for the codec alone: any of these
JunkLuds ==
    {StackLud,
     [has_uid |-> 0, has_appid |-> 0, uid |-> U(0), appid |-> U(0),
      ipv4 |-> <<0, 0, 0, 0>>, len |-> 0, name |-> <<>>]}

(***************************************************************************)
(* The state machine: a process that calls the entry points                *)
(***************************************************************************)
NoCall == [fn |-> "none", name |-> <<>>, addr |-> <<>>, len |-> 0,
           af |-> AF_UNSPEC, buflen |-> 0]

\* no struct lud was decoded with success
NoLud == [has_uid |-> 0, has_appid |-> 0, uid |-> U(0), appid |-> U(0),
          ipv4 |-> <<>>, len |-> 0, name |-> <<>>]

NoFwd == [set |-> FALSE, name |-> <<>>, h_name |-> <<>>, addr |-> <<>>,
          lud |-> NoLud]

NoRet == [called |-> FALSE, val |-> 0]

NoPair == [set |-> FALSE, name1 |-> <<>>, name2 |-> <<>>,
           ret1 |-> 0, ret2 |-> 0, lud1 |-> NoLud, lud2 |-> NoLud]

\* the state the variables take from what an entry point returned
Returned(c, r, f) ==
    /\ call' = c
    /\ status' = r.status
    /\ errnop' = r.out.errnop
    /\ h_errnop' = r.out.h_errnop
    /\ result' = r.out.result
    /\ buffer' = r.out.buffer
    /\ lud' = IF r.ret.called /\ r.ret.val = 1 THEN r.lud ELSE NoLud
    /\ ret' = r.ret
    /\ fwd' = f
    /\ UNCHANGED <<uid_cur, ptrsize, pair>>

Init ==
    /\ uid_cur \in CurUids
    /\ ptrsize \in PtrSizes
    /\ call = NoCall
    /\ status = NSS_STATUS_NOTFOUND
    /\ errnop = 0
    /\ h_errnop = 0
    /\ result = NoResult
    /\ buffer = NoBuffer
    /\ lud = NoLud
    /\ ret = NoRet
    /\ fwd = NoFwd
    /\ pair = NoPair

\* a call of _nss_localuser_gethostbyname2_r
GetHostByName2 ==
    /\ call = NoCall
    /\ \E name \in Names, af \in AFs, buflen \in BufLens :
        Returned([NoCall EXCEPT !.fn = "gethostbyname2_r", !.name = name,
                                !.af = af, !.buflen = buflen],
                 _nss_localuser_gethostbyname2_r(name, af, buflen, StackLud,
                                                 NoOut),
                 NoFwd)

\* a call of _nss_localuser_gethostbyname_r
GetHostByName ==
    /\ call = NoCall
    /\ \E name \in Names, buflen \in BufLens :
        Returned([NoCall EXCEPT !.fn = "gethostbyname_r", !.name = name,
                                !.buflen = buflen],
                 _nss_localuser_gethostbyname_r(name, buflen, StackLud, NoOut),
                 NoFwd)

\* a call of _nss_localuser_gethostbyaddr_r
GetHostByAddr ==
    /\ call = NoCall
    /\ \E addr \in Addrs, af \in AFs, buflen \in BufLens :
        Returned([NoCall EXCEPT !.fn = "gethostbyaddr_r", !.addr = addr,
                                !.len = Len(addr), !.af = af,
                                !.buflen = buflen],
                 _nss_localuser_gethostbyaddr_r(addr, Len(addr), af, buflen,
                                                StackLud, NoOut),
                 NoFwd)

\* the bytes of the answer's address: h_addr_list[0], h_length bytes
AnswerAddr(res, buf) ==
    LET a0 == buf[res.h_addr_list].v
    IN  [j \in 1..res.h_length |-> buf[a0 + j - 1].v]

\* the C string at h_name of the answer
RECURSIVE CString(_, _)
CString(buf, off) ==
    IF buf[off].v = 0 THEN <<>> ELSE <<buf[off].v>> \o CString(buf, off + 1)

AnswerName(res, buf) == CString(buf, res.h_name)

\* main() of the test program: the address of a forward answer is resolved
\* back, gethostbyaddr(h->h_addr_list[0], h->h_length, h->h_addrtype)
ReverseOfAnswer ==
    /\ call.fn \in {"gethostbyname2_r", "gethostbyname_r"}
    /\ status = NSS_STATUS_SUCCESS
    /\ LET addr == AnswerAddr(result, buffer)
        IN  Returned([NoCall EXCEPT !.fn = "gethostbyaddr_r", !.addr = addr,
                                    !.len = result.h_length,
                                    !.af = result.h_addrtype,
                                    !.buflen = call.buflen],
                     _nss_localuser_gethostbyaddr_r(addr, result.h_length,
                                                    result.h_addrtype,
                                                    call.buflen, StackLud,
                                                    NoOut),
                     [set |-> TRUE, name |-> call.name,
                      h_name |-> AnswerName(result, buffer),
                      addr |-> addr, lud |-> lud])

\* the caller is done with the answer and is ready for its next call, with
\* a struct hostent and a buffer nothing is written in
NextCall ==
    /\ call # NoCall
    /\ call' = NoCall
    /\ status' = NSS_STATUS_NOTFOUND
    /\ errnop' = 0
    /\ h_errnop' = 0
    /\ result' = NoResult
    /\ buffer' = NoBuffer
    /\ lud' = NoLud
    /\ ret' = NoRet
    /\ fwd' = NoFwd
    /\ UNCHANGED <<uid_cur, ptrsize, pair>>

Next ==
    \/ GetHostByName2
    \/ GetHostByName
    \/ GetHostByAddr
    \/ ReverseOfAnswer
    \/ NextCall

Spec == Init /\ [][Next]_vars

(***************************************************************************)
(* The codec alone: decode_name applied to two names in one process        *)
(***************************************************************************)
\* lud as kept in the state: the struct once decoded with success
Decoded(d) == IF d.ret = 1 THEN d.lud ELSE NoLud

DecodePair ==
    /\ ~pair.set
    /\ \E n1 \in Names, n2 \in Names, l1 \in JunkLuds, l2 \in JunkLuds :
        LET d1 == decode_name(n1, l1)
            d2 == decode_name(n2, l2)
        IN  pair' = [set |-> TRUE, name1 |-> n1, name2 |-> n2,
                     ret1 |-> d1.ret, ret2 |-> d2.ret,
                     lud1 |-> Decoded(d1), lud2 |-> Decoded(d2)]
    /\ UNCHANGED <<uid_cur, ptrsize, call, status, errnop, h_errnop, result,
                   buffer, lud, ret, fwd>>

NextPair ==
    /\ pair.set
    /\ pair' = NoPair
    /\ UNCHANGED <<uid_cur, ptrsize, call, status, errnop, h_errnop, result,
                   buffer, lud, ret, fwd>>

NextCodec ==
    \/ DecodePair
    \/ NextPair

\* the codec does not depend on the size of a pointer
InitCodec == Init /\ ptrsize = 8

SpecCodec == InitCodec /\ [][NextCodec]_vars

(***************************************************************************)
(* Numbers of any length: forward calls on names whose digit sequences go  *)
(* up to and past the 32 bits of read_u32's accumulator                    *)
(***************************************************************************)
\* the first eight digits of the texts: 2^32 = 4294967296, 2 * 2^32 =
\* 8589934592, 3 * 2^32 = 12884901888, 6000000000 mod 2^32 = 1705032704
DigitHeads ==
    {<<52, 50, 57, 52, 57, 54, 55, 50>>,     \* 42949672
     <<56, 53, 56, 57, 57, 51, 52, 53>>,     \* 85899345
     <<49, 50, 56, 56, 52, 57, 48, 49>>,     \* 12884901
     <<54, 48, 48, 48, 48, 48, 48, 48>>,     \* 60000000
     <<57, 57, 57, 57, 57, 57, 57, 57>>,     \* 99999999
     <<48, 48, 48, 48, 48, 48, 48, 48>>}     \* 00000000

\* the digits tried after a head in third place
DigitTails == {48, 53, 56, 57}

\* digit sequences of 10 and 11 digits around the multiples of 2^32, short
\* ones around the maxima of the layouts, and long ones
DigitTexts ==
    {h \o <<a, b>> : h \in DigitHeads, a \in 48..57, b \in 48..57}
    \cup {h \o <<a, b, c>> :
            h \in DigitHeads, a \in {56, 57}, b \in 48..57, c \in DigitTails}
    \cup {Dec(2047), Dec(2048), Dec(1048575), Dec(1048576),
          <<48, 48, 48, 48>> \o Dec(2047),
          <<49, 56, 52, 52, 54, 55, 52, 52, 48, 55, 51, 55, 48, 57, 53, 53,
            49, 54, 49, 54>>,                          \* 2^64
          <<49, 56, 52, 52, 54, 55, 52, 52, 48, 55, 51, 55, 48, 57, 53, 53,
            49, 54, 49, 55>>,                          \* 2^64 + 1
          <<52, 50, 57, 52, 57, 54, 55, 50, 57, 54, 48, 48, 48, 48, 48, 48,
            48, 48, 48, 49>>}                          \* 2^32 * 10^10 + 1

\* the names made of a digit sequence t, one for each place of a number
DigitForms(t) ==
    {localuser \o <<separator>> \o t,
     localuser \o <<separator, separator>> \o t,
     localuser \o <<separator, separator, separator>> \o t,
     localuser \o <<separator>> \o t \o <<separator>> \o Dec(5),
     localuser \o <<separator>> \o Dec(5) \o <<separator>> \o t}

DigitNames == UNION {DigitForms(t) : t \in DigitTexts}

\* a call of _nss_localuser_gethostbyname2_r for AF_INET on one of the names,
\* with a buffer that holds any answer
ResolveDigits ==
    /\ call = NoCall
    /\ \E name \in DigitNames :
        Returned([NoCall EXCEPT !.fn = "gethostbyname2_r", !.name = name,
                                !.af = AF_INET, !.buflen = MaxBufLen],
                 _nss_localuser_gethostbyname2_r(name, AF_INET, MaxBufLen,
                                                 StackLud, NoOut),
                 NoFwd)

NextDigits ==
    \/ ResolveDigits
    \/ NextCall

SpecDigits == Init /\ [][NextDigits]_vars

(***************************************************************************)
(* Vocabulary of the properties                                            *)
(***************************************************************************)
Forward == call.fn \in {"gethostbyname2_r", "gethostbyname_r"}

Reverse == call.fn = "gethostbyaddr_r"

\* the decoder of the call was called and returned 1
DecodedOk == ret.called /\ ret.val = 1

\* two struct lud hold the same identity: the flags, and each id present
SameIdentity(a, b) ==
    /\ a.has_uid = b.has_uid
    /\ a.has_appid = b.has_appid
    /\ (a.has_uid = 1 => a.uid = b.uid)
    /\ (a.has_appid = 1 => a.appid = b.appid)

\* the identity is one the address layouts can hold
ValidIdentity(l) ==
    \/ l.has_uid = 1 /\ l.has_appid = 0 /\ ~Gt32(l.uid, U(1048575))
    \/ l.has_uid = 0 /\ l.has_appid = 1 /\ ~Gt32(l.appid, U(1048575))
    \/ /\ l.has_uid = 1 /\ l.has_appid = 1
       /\ ~Gt32(l.uid, U(2047)) /\ ~Gt32(l.appid, U(2047))

\* the names of the grammar, from numbers
NameUid(u) == localuser \o <<45>> \o Dec(u)
NameAppid(a) == localuser \o <<45, 45, 45>> \o Dec(a)
NameCurAppid(a) == localuser \o <<45, 45>> \o Dec(a)
NameUidAppid(u, a) == localuser \o <<45>> \o Dec(u) \o <<45>> \o Dec(a)

(***************************************************************************)
(* Properties                                                              *)
(***************************************************************************)

\* C1: address round trip.  The address decode_name makes of a valid
\* identity decodes through decode_ipv4 to the same identity; and the
\* reverse resolution of the address of a forward answer is found, with the
\* same identity, the same canonical name and the same address.
C1_AddressRoundTrip ==
    /\ Forward /\ DecodedOk =>
        LET d == decode_ipv4(lud.ipv4, StackLud)
        IN  /\ ValidIdentity(lud)
            /\ d.ret = 1
            /\ SameIdentity(d.lud, lud)
    /\ fwd.set =>
        /\ status = NSS_STATUS_SUCCESS
        /\ DecodedOk
        /\ SameIdentity(lud, fwd.lud)
        /\ AnswerName(result, buffer) = fwd.h_name
        /\ AnswerAddr(result, buffer) = fwd.addr

\* a forward answer for uid 23 and appid 54 was resolved back
C1_Witness ==
    /\ fwd.set
    /\ status = NSS_STATUS_SUCCESS
    /\ fwd.name = NameUidAppid(23, 54)
    /\ lud.has_uid = 1 /\ lud.uid = U(23)
    /\ lud.has_appid = 1 /\ lud.appid = U(54)

\* C2: canonical name fixed point.  The name encode_name wrote for a valid
\* identity is accepted by decode_name, decodes to the same identity and is
\* written again character for character; the current user with an APPID A
\* is spelled localuser--A.
C2_CanonicalFixedPoint ==
    DecodedOk =>
        /\ ValidIdentity(lud)
        /\ \A j \in JunkLuds :
            LET d == decode_name(lud.name, j)
            IN  /\ d.ret = 1
                /\ SameIdentity(d.lud, lud)
                /\ d.lud.name = lud.name
                /\ d.lud.len = lud.len
        /\ (lud.has_uid = 1 /\ lud.uid = uid_cur /\ lud.has_appid = 1
            => lud.name = NameCurAppid(Val(lud.appid)))

\* an address of the current user with an APPID was decoded
C2_Witness ==
    /\ Reverse
    /\ DecodedOk
    /\ lud.has_uid = 1 /\ lud.uid = uid_cur
    /\ lud.has_appid = 1 /\ lud.appid = U(78)
    /\ lud.name = localuser \o <<45, 45, 55, 56>>

C4_Disjointness ==
    pair.set =>
        /\ pair.ret1 = 1 =>
            /\ pair.lud1.ipv4[1] = 127 /\ pair.lud1.ipv4[2] >= 128
            /\ (pair.lud1.has_uid = 1 /\ pair.lud1.has_appid = 1
                => pair.lud1.ipv4[2] \in 192..255)
            /\ (pair.lud1.has_uid = 0 /\ pair.lud1.has_appid = 1
                => pair.lud1.ipv4[2] \in 176..191)
            /\ (pair.lud1.has_uid = 1 /\ pair.lud1.has_appid = 0
                => pair.lud1.ipv4[2] \in 160..175)
        /\ (pair.ret1 = 1 /\ pair.ret2 = 1
            /\ ~SameIdentity(pair.lud1, pair.lud2))
           => pair.lud1.ipv4 # pair.lud2.ipv4

\* uid 45 alone and appid 45 alone were both encoded
C4_Witness ==
    /\ pair.set
    /\ pair.name1 = NameUid(45) /\ pair.ret1 = 1
    /\ pair.name2 = NameAppid(45) /\ pair.ret2 = 1
    /\ pair.lud1.ipv4 = <<127, 160, 0, 45>>
    /\ pair.lud2.ipv4 = <<127, 176, 0, 45>>

\* the documented examples, for the current user 1001
Examples ==
    {<<localuser, <<127, 160, 3, 233>>>>,
     <<NameUid(0), <<127, 160, 0, 0>>>>,
     <<NameUid(1024), <<127, 160, 4, 0>>>>,
     <<NameUid(1048575), <<127, 175, 255, 255>>>>,
     <<NameAppid(0), <<127, 176, 0, 0>>>>,
     <<NameAppid(1048575), <<127, 191, 255, 255>>>>,
     <<NameUidAppid(0, 0), <<127, 192, 0, 0>>>>,
     <<NameCurAppid(78), <<127, 194, 115, 233>>>>,
     <<NameUidAppid(23, 54), <<127, 193, 176, 23>>>>,
     <<NameUidAppid(2047, 2047), <<127, 255, 255, 255>>>>}

\* the family a forward call answers in
ForwardFamily == IF call.af = AF_UNSPEC THEN AF_INET ELSE call.af

DecodeFailure == call # NoCall /\ ~DecodedOk

Answers == {NSS_STATUS_SUCCESS, NSS_STATUS_NOTFOUND, NSS_STATUS_TRYAGAIN}

\* C7 as stated: whatever the name, the family and the buffer size, a call
\* ends in Found, NotFound or InsufficientBuffer, and in NotFound when the
\* decoding fails.
C7_ThreeOutcomes ==
    call # NoCall =>
        /\ status \in Answers
        /\ (DecodeFailure => status = NSS_STATUS_NOTFOUND)

\* C7 amended: so it is for every reverse call and for the forward calls
\* of family AF_UNSPEC, AF_INET or AF_INET6; a forward call of another
\* family ends in NotFound when the decoding fails and in UNAVAIL, with
\* EINVAL and nothing written, when the name decodes.
C7_OutcomesByFamily ==
    call # NoCall =>
        /\ (Reverse \/ call.af \in {AF_UNSPEC, AF_INET, AF_INET6})
            => status \in Answers
        /\ (DecodeFailure =>
                /\ status = NSS_STATUS_NOTFOUND
                /\ result = NoResult /\ buffer = NoBuffer)
        /\ (Forward /\ call.af \notin {AF_UNSPEC, AF_INET, AF_INET6}
            /\ DecodedOk)
            => /\ status = NSS_STATUS_UNAVAIL
               /\ errnop = EINVAL /\ h_errnop = NO_RECOVERY
               /\ result = NoResult /\ buffer = NoBuffer

\* an out-of-range name was not found, in a family the module serves
C7_Witness ==
    /\ Forward
    /\ call.af = AF_INET6
    /\ ret.val = -2
    /\ status = NSS_STATUS_NOTFOUND
    /\ h_errnop = HOST_NOT_FOUND

\* the length of the address of the answer
AddrLen == IF Forward
           THEN IF ForwardFamily = AF_INET6 THEN 16 ELSE 4
           ELSE call.len

\* the bytes the answer takes in the buffer
Needed == 2 * ptrsize + (Len(lud.name) + 1) + AddrLen

\* every number the call hands back to its caller
Reported ==
    {errnop, h_errnop, result.h_name, result.h_aliases, result.h_addrtype,
     result.h_length, result.h_addr_list}
    \cup {buffer[o].v : o \in DOMAIN buffer}

\* the same call with a buffer of b bytes
Retry(b) ==
    IF call.fn = "gethostbyname2_r"
    THEN _nss_localuser_gethostbyname2_r(call.name, call.af, b, StackLud, NoOut)
    ELSE IF call.fn = "gethostbyname_r"
    THEN _nss_localuser_gethostbyname_r(call.name, b, StackLud, NoOut)
    ELSE _nss_localuser_gethostbyaddr_r(call.addr, call.len, call.af, b,
                                        StackLud, NoOut)

MappedPrefix == <<0, 0, 0, 0, 0, 0, 0, 0, 0, 0, 255, 255>>

\* the address bytes of the answer for the decoded lud
ExpectedAddr == IF AddrLen = 16 THEN MappedPrefix \o lud.ipv4 ELSE lud.ipv4

\* C9: buffer safety.  For a decoded input and a served family the call
\* ends in InsufficientBuffer exactly when buflen is below Needed;
\* otherwise it is found, and what is written - the two pointers of the
\* list, the address, the whole name and its NUL - lies below buflen.
C9_BufferSafety ==
    (DecodedOk /\ (Reverse \/ call.af \in {AF_UNSPEC, AF_INET, AF_INET6})) =>
        /\ status = NSS_STATUS_TRYAGAIN <=> call.buflen < Needed
        /\ status # NSS_STATUS_TRYAGAIN =>
            /\ status = NSS_STATUS_SUCCESS
            /\ \A o \in DOMAIN buffer : 0 <= o /\ o < call.buflen
            /\ DOMAIN buffer = 0..(Needed - 1)
            /\ result.h_addr_list = 0
            /\ \A o \in 0..(ptrsize - 1) : buffer[o] = Ptr(2 * ptrsize)
            /\ \A o \in ptrsize..(2 * ptrsize - 1) : buffer[o] = Null
            /\ result.h_aliases = ptrsize
            /\ result.h_length = AddrLen
            /\ AnswerAddr(result, buffer) = ExpectedAddr
            /\ result.h_name = 2 * ptrsize + AddrLen
            /\ \A j \in 1..Len(lud.name) :
                buffer[result.h_name + j - 1] = Byte(lud.name[j])
            /\ buffer[result.h_name + Len(lud.name)] = Byte(0)
            /\ lud.len = Len(lud.name)
            /\ lud.len < MAXNAMELEN

\* an IPv6 answer that fills its buffer to the last byte
C9_Witness ==
    /\ Forward
    /\ call.af = AF_INET6
    /\ status = NSS_STATUS_SUCCESS
    /\ call.buflen = Needed
    /\ (call.buflen - 1) \in DOMAIN buffer

\* family and length of a reverse call agree
FamilyAgrees ==
    \/ call.af = AF_INET /\ call.len = 4
    \/ call.af = AF_INET6 /\ call.len = 16
    \/ call.af = AF_UNSPEC /\ call.len \in {4, 16}

\* C10: a reverse call is found only when family and length agree and, for
\* 16 bytes, when the first 96 bits are 0:0:0xffff; every other call is not
\* found; and the IPv6 address of a forward answer is that prefix followed
\* by the address of the AF_INET answer for the same name.
C10_ReverseFamilies ==
    /\ Reverse =>
        /\ status = NSS_STATUS_SUCCESS =>
            /\ FamilyAgrees
            /\ call.len = 16 => SubSeq(call.addr, 1, 12) = MappedPrefix
        /\ ~FamilyAgrees => status = NSS_STATUS_NOTFOUND /\ ~ret.called
        /\ (call.len = 16 /\ SubSeq(call.addr, 1, 12) # MappedPrefix)
            => status = NSS_STATUS_NOTFOUND /\ ~ret.called
        /\ (FamilyAgrees /\ call.len = 16
            /\ SubSeq(call.addr, 1, 12) = MappedPrefix)
            => /\ ret.called
               /\ ret.val = decode_ipv4(SubSeq(call.addr, 13, 16),
                                        StackLud).ret
    /\ (Forward /\ call.af = AF_INET6 /\ status = NSS_STATUS_SUCCESS) =>
        LET f4 == _nss_localuser_gethostbyname2_r(call.name, AF_INET,
                                                  call.buflen, StackLud, NoOut)
            a6 == AnswerAddr(result, buffer)
        IN  /\ f4.status = NSS_STATUS_SUCCESS
            /\ SubSeq(a6, 1, 12) = MappedPrefix
            /\ SubSeq(a6, 13, 16) = AnswerAddr(f4.out.result, f4.out.buffer)
    /\ (fwd.set /\ call.len = 16) =>
        /\ status = NSS_STATUS_SUCCESS
        /\ lud.ipv4 = SubSeq(fwd.addr, 13, 16)

\* a 16-byte address of unspecified family was resolved
C10_Witness ==
    /\ Reverse
    /\ call.af = AF_UNSPEC
    /\ call.len = 16
    /\ status = NSS_STATUS_SUCCESS
    /\ SubSeq(call.addr, 13, 16) = <<127, 193, 176, 23>>

\* Decimal numbers as texts, compared without computing them
RECURSIVE StripZeros(_)
StripZeros(t) ==
    IF Len(t) > 1 /\ t[1] = 48 THEN StripZeros(Tail(t)) ELSE t

\* s > m for texts of the same length
RECURSIVE LexGt(_, _)
LexGt(s, m) ==
    IF s = <<>> THEN FALSE
    ELSE IF s[1] # m[1] THEN s[1] > m[1]
    ELSE LexGt(Tail(s), Tail(m))

\* the decimal value of the digits t is above that of m (m without zeros
\* in front); no digit at all is above nothing
DecGt(t, m) ==
    LET s == StripZeros(t)
    IN  Len(s) > Len(m) \/ (Len(s) = Len(m) /\ LexGt(s, m))

\* 2^32 - 1
Max32Text == <<52, 50, 57, 52, 57, 54, 55, 50, 57, 53>>

\* the digits of name from place i (counted from 1) on
RECURSIVE DigitRun(_, _)
DigitRun(s, i) ==
    IF i <= Len(s) /\ s[i] \in 48..57
    THEN <<s[i]>> \o DigitRun(s, i + 1)
    ELSE <<>>

\* the separators of name from place i on
RECURSIVE Dashes(_, _)
Dashes(s, i) ==
    IF i <= Len(s) /\ s[i] = 45 THEN 1 + Dashes(s, i + 1) ELSE 0

\* a name of the family: "localuser" and more
InFamily(name) ==
    Len(name) > Len(localuser) /\ SubSeq(name, 1, Len(localuser)) = localuser

\* the digit sequence in the UID position of a name of the family
UidText(name) ==
    IF Dashes(name, 10) = 1 THEN DigitRun(name, 11) ELSE <<>>

\* the digit sequence in the APPID position of a name of the family
AppidText(name) ==
    LET d == Dashes(name, 10)
        u == UidText(name)
    IN  IF d \in {2, 3} THEN DigitRun(name, 10 + d)
        ELSE IF d = 1 /\ u # <<>> /\ Dashes(name, 11 + Len(u)) = 1
        THEN DigitRun(name, 12 + Len(u))
        ELSE <<>>

\* C11: decode_name returns -1 (Malformed), not -2 and not 1, for every name
\* of the family whose UID or APPID digit sequence has a decimal value that
\* does not fit in 32 bits: read_u32 detects every overflow.
C11_OverflowIsMalformed ==
    ( /\ Forward
      /\ InFamily(call.name)
      /\ \/ DecGt(UidText(call.name), Max32Text)
         \/ DecGt(AppidText(call.name), Max32Text) )
    => (ret.called /\ ret.val = -1)

\* the four bytes a reverse call hands to decode_ipv4
Ipv4Arg == IF call.len = 16 THEN SubSeq(call.addr, 13, 16) ELSE call.addr

\* the part of the address space the bytes a lie in, read off the layout
\* 01111111:1abbcccc:dddddeee:ffffffff
LayoutOf(a) ==
    IF a[1] # 127 \/ a[2] < 128 THEN "none"
    ELSE IF a[2] >= 192 THEN "both"          \* a = 1
    ELSE IF a[2] >= 176 THEN "appid"         \* abb = 011
    ELSE IF a[2] >= 160 THEN "uid"           \* abb = 010
    ELSE "reserved"                          \* abb = 000 or 001

\* the 11 bits eeeffffffff
Low11(a) == U((a[3] % 8) * 256 + a[4])

\* the 11 bits bbccccddddd
High11(a) == U((a[2] % 64) * 32 + (a[3] \div 8))

\* the 20 bits ccccdddddeeeffffffff
Low20(a) == U32(a[2] % 16, a[3] * 256 + a[4])

LayoutMaxText(name) ==
    LET d == Dashes(name, 10)
        u == UidText(name)
    IN  IF d = 2 \/ (d = 1 /\ Dashes(name, 11 + Len(u)) >= 1)
        THEN Dec(2047)
        ELSE Dec(1048575)

CurrentUserName(name) ==
    name = localuser \/ (InFamily(name) /\ Dashes(name, 10) = 2)

====
